---- MODULE Spec2Model ----
(***************************************************************************)
(* Model of the job queue and executor of social-auto-poster               *)
(* (src/src/scheduler/queue-manager.ts, class QueueManagerService) and of  *)
(* its scheduler (src/src/scheduler/cron-jobs.ts, class CronJobsService).  *)
(*                                                                         *)
(* Time is counted in seconds: the code works in milliseconds and every    *)
(* duration it uses is a whole number of seconds (60 * 1000 ms and so on). *)
(* A job object lives in `jobs` (the JS heap, keyed by the job's id) and   *)
(* `queue` is the array of references to them, so that a handler in flight *)
(* still writes to its job after the array has dropped the reference.      *)
(***************************************************************************)
EXTENDS Integers, Sequences, FiniteSets, TLC

\* ------------------------------------------------------------------ bounds

\* Number of jobs enqueued in one behaviour.
MaxJobs == 2

\* The clock stops advancing at MaxTime.
MaxTime == 360

\* The clock advances in steps of TickStep seconds.
TickStep == 120

\* Seconds between two of the jobs a long-running queue starts with.
PreloadGap == 1000

\* Timers of the scheduler that are left running with no JobInfo holding them.
MaxOrphans == 1

\* Callbacks of setTimeout(..., 5000) waiting at one time.
MaxTimeouts == 1

\* Jobs of a backlog that the periodic wake dispatches in one behaviour.
MaxBacklogRuns == 3

\* ------------------------------------------------------- program constants

\* maxAttempts: jobData.maxAttempts || 3
DefaultMaxAttempts == 3

\* Math.pow(2, job.attempts) * 60 * 1000 ms
BaseDelay == 60

\* setInterval(..., 30000)
WakeInterval == 30

\* const maxJobs = 100
maxJobs == 100

\* Date.now() - 24 * 60 * 60 * 1000 ms
RetentionWindow == 86400

\* Date.now() - 7 * 24 * 60 * 60 * 1000 ms
CleanupAge == 604800

\* const priorityOrder = { high: 3, medium: 2, low: 1 }
priorityOrder == [high |-> 3, medium |-> 2, low |-> 1]

\* The cases of the switch in executeJob; any other type takes the default.
RegisteredTypes == {"main-posting", "health-check", "cleanup", "backup"}

\* Handlers that await an external collaborator (app.processCommitsAndPost,
\* the three validate calls, memoryStore.createBackup): the executor is
\* suspended and other callbacks run before the outcome is known.
AwaitingTypes == RegisteredTypes \ {"cleanup"}

\* The outcomes a handler can report.  executeHealthCheckJob catches every
\* probe's error and always answers successful = true.
Outcomes(type) ==
    IF type = "health-check" THEN {TRUE} ELSE {TRUE, FALSE}

\* ------------------------------------------------------------------ inputs

\* The calls of addJob that are explored: <<type, priority, maxAttempts>>,
\* where maxAttempts = 0 stands for an omitted (or zero) maxAttempts.
\* The first four are the calls cron-jobs.ts makes (the manual trigger
\* passes the type 'main-posting-manual'); the last is a call through the
\* public method with another priority and an explicit maxAttempts.
Requests ==
    { <<"main-posting", "high", 0>>,
      <<"main-posting-manual", "high", 0>>,
      <<"health-check", "low", 0>>,
      <<"cleanup", "low", 0>>,
      <<"backup", "medium", 1>> }

\* The calls explored on a long-running queue: those of the main-posting and
\* cleanup schedules.
CronRequests ==
    { <<"main-posting", "high", 0>>,
      <<"cleanup", "low", 0>> }

\* Calls of addJob through the public method, two of them with parameters
\* outside the declared types: a priority that is none of 'high', 'medium',
\* 'low', and a negative maxAttempts.
AnyRequests ==
    { <<"main-posting", "high", 0>>,
      <<"main-posting", "urgent", 0>>,
      <<"backup", "medium", 0 - 1>> }

\* The ids cancelJob is called with: every id addJob can hand out, and 0.
CancelIds == 0 .. MaxJobs

VARIABLES
    queue,              \* this.queue: the array, as a sequence of job ids
    jobs,               \* the QueueJob objects reachable from the queue or a handler
    isProcessing,       \* this.isProcessing
    processingInterval, \* this.processingInterval !== null
    intervals,          \* timers created by setInterval and not cleared
    wakeDue,            \* the interval has run out and its callback has not run yet
    immediates,         \* callbacks scheduled by setImmediate and not yet run
    inflight,           \* ids of the jobs whose executeJob promise is pending
    now,                \* Date.now(), in seconds
    nextId,             \* the next id generateId hands out
    response,           \* the ApiResponse of the latest public call
    window,             \* history: ids enqueued since the latest dispatch
    fifo,               \* history: <<a, b>>, a enqueued before b, same priority,
                        \*          no dispatch between the two enqueues
    cron,               \* the CronJobsService object and the timers it has created
    env                 \* config.app.cronSchedule and process.env.RUN_NOW

vars == <<queue, jobs, isProcessing, processingInterval, intervals, wakeDue, immediates,
          inflight, now, nextId, response, window, fifo, cron, env>>

\* The state of cron-jobs.ts, which no method of the queue touches.
cronVars == <<cron, env>>

\* The state of the queue apart from the latest ApiResponse.
queueVars == <<queue, jobs, isProcessing, processingInterval, intervals, wakeDue,
               immediates, inflight, now, nextId, window, fifo>>

\* --------------------------------------------------------------- helpers

Range(s) == {s[i] : i \in 1 .. Len(s)}

RECURSIVE Pow2(_)
Pow2(n) == IF n <= 0 THEN 1 ELSE 2 * Pow2(n - 1)

\* The objects still reachable: those in the array and those a handler holds.
Live(q, fl, js) == [j \in (Range(q) \cup fl) \cap DOMAIN js |-> js[j]]

\* The history pairs about jobs that still exist.
LivePairs(pairs, q, fl) ==
    {p \in pairs : p[1] \in Range(q) \cup fl /\ p[2] \in Range(q) \cup fl}

\* Eligible without the test of the status.
Eligible_anyStatus(job, t) ==
    /\ job.status # "processing"
    /\ \A r \in job.nextRetry : r <= t

\* Eligible without the test of nextRetry.
Eligible_noBackoff(job, t) ==
    job.status = "pending"

\* job.status === 'pending' && (!job.nextRetry || new Date(job.nextRetry) <= new Date())
Eligible(job, t) ==
    /\ job.status = "pending"
    /\ \A r \in job.nextRetry : r <= t

\* Stable sort of a sequence of ids by createdAt, latest first
\* (Array.prototype.sort with (a, b) => b.createdAt - a.createdAt; the order
\* of jobs with equal createdAt is kept, as the language guarantees).
\* The merge of two sorted runs moves a whole prefix at a time: the jobs of b
\* later than the head of a, or the jobs of a not earlier than the head of b.
RECURSIVE MergeByCreatedAtDesc(_, _, _)
MergeByCreatedAtDesc(a, b, js) ==
    IF Len(a) = 0 THEN b
    ELSE IF Len(b) = 0 THEN a
    ELSE IF js[Head(b)].createdAt > js[Head(a)].createdAt
    THEN LET n == Cardinality({i \in 1 .. Len(b) :
                                 js[b[i]].createdAt > js[Head(a)].createdAt})
         IN  SubSeq(b, 1, n) \o MergeByCreatedAtDesc(a, SubSeq(b, n + 1, Len(b)), js)
    ELSE LET n == Cardinality({i \in 1 .. Len(a) :
                                 js[a[i]].createdAt >= js[Head(b)].createdAt})
         IN  SubSeq(a, 1, n) \o MergeByCreatedAtDesc(SubSeq(a, n + 1, Len(a)), b, js)

RECURSIVE SortByCreatedAtDesc(_, _)
SortByCreatedAtDesc(q, js) ==
    IF Len(q) <= 1 THEN q
    ELSE LET half == Len(q) \div 2
         IN  MergeByCreatedAtDesc(SortByCreatedAtDesc(SubSeq(q, 1, half), js),
                                  SortByCreatedAtDesc(SubSeq(q, half + 1, Len(q)), js),
                                  js)

\* ------------------------------------------------------ the queue's methods

\* jobPriority > queueJobPriority, where a priority that is no key of
\* priorityOrder looks up undefined and every comparison with undefined is
\* false.
PriorityGreater(p, r) ==
    /\ p \in DOMAIN priorityOrder
    /\ r \in DOMAIN priorityOrder
    /\ priorityOrder[p] > priorityOrder[r]

findInsertPosition(q, js, priority) ==
    LET lower == {i \in 1 .. Len(q) : PriorityGreater(priority, js[q[i]].priority)}
    IN  IF lower = {} THEN Len(q) + 1
        ELSE CHOOSE i \in lower : \A k \in lower : i <= k

\* handleJobFailure giving up one attempt late (> for >=).
handleJobFailure_lateFail(js, j, err, t) ==
    IF js[j].attempts > js[j].maxAttempts
    THEN [js EXCEPT ![j].error = {err}, ![j].status = "failed"]
    ELSE [js EXCEPT ![j].error = {err},
                    ![j].status = "pending",
                    ![j].nextRetry = {t + Pow2(js[j].attempts) * BaseDelay}]

\* handleJobFailure with the delays its comment names (1 min, 2 min, 4 min).
handleJobFailure_delayFromOne(js, j, err, t) ==
    IF js[j].attempts >= js[j].maxAttempts
    THEN [js EXCEPT ![j].error = {err}, ![j].status = "failed"]
    ELSE [js EXCEPT ![j].error = {err},
                    ![j].status = "pending",
                    ![j].nextRetry = {t + Pow2(js[j].attempts - 1) * BaseDelay}]

handleJobFailure(js, j, err, t) ==
    IF js[j].attempts >= js[j].maxAttempts
    THEN [js EXCEPT ![j].error = {err}, ![j].status = "failed"]
    ELSE [js EXCEPT ![j].error = {err},
                    ![j].status = "pending",
                    ![j].nextRetry = {t + Pow2(js[j].attempts) * BaseDelay}]

\* cleanupOldJobs without the cut to maxJobs.
cleanupOldJobs_noSlice(q, js, t) ==
    IF Len(q) <= maxJobs THEN q
    ELSE LET keep(j) ==
                \/ js[j].status \in {"pending", "processing", "failed"}
                \/ js[j].status = "completed" /\ js[j].createdAt > t - RetentionWindow
         IN  SelectSeq(q, keep)

\* cleanupOldJobs without the early return on a queue of at most maxJobs jobs.
cleanupOldJobs_noEarlyReturn(q, js, t) ==
    LET keep(j) ==
           \/ js[j].status \in {"pending", "processing", "failed"}
           \/ js[j].status = "completed" /\ js[j].createdAt > t - RetentionWindow
        jobsToKeep == SelectSeq(q, keep)
    IN  IF Len(jobsToKeep) > maxJobs
        THEN SubSeq(SortByCreatedAtDesc(jobsToKeep, js), 1, maxJobs)
        ELSE jobsToKeep

cleanupOldJobs(q, js, t) ==
    IF Len(q) <= maxJobs THEN q
    ELSE LET keep(j) ==
                \/ js[j].status \in {"pending", "processing", "failed"}
                \/ js[j].status = "completed" /\ js[j].createdAt > t - RetentionWindow
             jobsToKeep == SelectSeq(q, keep)
         IN  IF Len(jobsToKeep) > maxJobs
             THEN SubSeq(SortByCreatedAtDesc(jobsToKeep, js), 1, maxJobs)
             ELSE jobsToKeep

\* The queue after executeCleanupJob's filter.
executeCleanupJob(q, js, t) ==
    LET old(j) == /\ js[j].status \in {"completed", "failed"}
                  /\ js[j].createdAt < t - CleanupAge
        fresh(j) == ~old(j)
    IN  SelectSeq(q, fresh)

\* The first job of the array that find() accepts, or 0.
nextJob(q, js, t) ==
    LET ok == {i \in 1 .. Len(q) : Eligible(js[q[i]], t)}
    IN  IF ok = {} THEN 0
        ELSE q[CHOOSE i \in ok : \A k \in ok : i <= k]

\* nextJob.status = 'processing'; nextJob.attempts++
markProcessing(js, j) ==
    [js EXCEPT ![j].status = "processing", ![j].attempts = @ + 1]

\* What one call of processQueue does before it yields to other callbacks:
\* nothing, or the dispatch of the next job.  A job whose handler awaits is
\* left in flight; the default case of executeJob and executeCleanupJob
\* resolve without leaving the microtask queue, so their outcome and the
\* trailing cleanupOldJobs belong to the same step.
processQueue(active, q, js, fl, t) ==
    LET j == nextJob(q, js, t)
        idle == [queue |-> q, jobs |-> js, inflight |-> fl, dispatched |-> FALSE]
    IN  IF ~active \/ Len(q) = 0 THEN idle
        ELSE IF j = 0 THEN idle
        ELSE LET js1 == markProcessing(js, j)
             IN  IF js1[j].type \notin RegisteredTypes
                 THEN LET js2 == handleJobFailure(js1, j, "Job type not supported", t)
                      IN  [queue |-> cleanupOldJobs(q, js2, t), jobs |-> js2,
                           inflight |-> fl, dispatched |-> TRUE]
                 ELSE IF js1[j].type \in AwaitingTypes
                 THEN [queue |-> q, jobs |-> js1, inflight |-> fl \cup {j},
                       dispatched |-> TRUE]
                 ELSE LET q1 == executeCleanupJob(q, js1, t)
                          js2 == [js1 EXCEPT ![j].status = "completed"]
                      IN  [queue |-> cleanupOldJobs(q1, js2, t), jobs |-> js2,
                           inflight |-> fl, dispatched |-> TRUE]

\* The effect of a call of processQueue on the state.
Wake(active) ==
    LET r == processQueue(active, queue, jobs, inflight, now)
    IN  /\ queue' = r.queue
        /\ inflight' = r.inflight
        /\ jobs' = Live(r.queue, r.inflight, r.jobs)
        /\ window' = IF r.dispatched THEN {} ELSE window
        /\ fifo' = LivePairs(fifo, r.queue, r.inflight)

\* ------------------------------------------------------------------ state

NoResponse == [op |-> "none", successful |-> TRUE]

\* CronJobsService as constructed: jobs = new Map(), isRunning = false; no
\* timer exists.  orphans are the node-cron tasks that were started, were
\* never stopped and are no longer the task of a JobInfo of the map;
\* timeouts counts the callbacks of setTimeout(..., 5000) not yet run.
NoCron == [isRunning |-> FALSE, jobs |-> <<>>, orphans |-> <<>>, timeouts |-> 0]

\* process.env.CRON_SCHEDULE || '0 9 * * *', RUN_NOW unset
DefaultEnv == [cronSchedule |-> "0 9 * * *", RUN_NOW |-> FALSE]

Init ==
    /\ queue = <<>>
    /\ jobs = <<>>
    /\ isProcessing = FALSE
    /\ processingInterval = FALSE
    /\ intervals = 0
    /\ wakeDue = FALSE
    /\ immediates = 0
    /\ inflight = {}
    /\ now = 0
    /\ nextId = 1
    /\ response = NoResponse
    /\ window = {}
    /\ fifo = {}
    /\ cron = NoCron
    /\ env = DefaultEnv

\* ---------------------------------------------------------------- actions

\* start()
Start ==
    /\ response' = [op |-> "start", successful |-> TRUE]
    /\ IF isProcessing
       THEN UNCHANGED <<queue, jobs, isProcessing, processingInterval, intervals,
                        wakeDue, inflight, window, fifo>>
       ELSE /\ isProcessing' = TRUE
            /\ processingInterval' = TRUE
            /\ intervals' = intervals + 1
            /\ wakeDue' = FALSE
            /\ Wake(TRUE)
    /\ UNCHANGED <<immediates, now, nextId>>
    /\ UNCHANGED cronVars

\* stop()
Stop ==
    /\ processingInterval' = FALSE
    /\ intervals' = IF processingInterval THEN intervals - 1 ELSE intervals
    /\ wakeDue' = FALSE
    /\ isProcessing' = FALSE
    /\ response' = [op |-> "stop", successful |-> TRUE]
    /\ UNCHANGED <<queue, jobs, immediates, inflight, now, nextId, window, fifo>>
    /\ UNCHANGED cronVars

\* addJob calling setImmediate whatever the priority and the state of the
\* executor.
addJob_alwaysImmediate(type, priority, maxAttemptsArg) ==
    /\ nextId <= MaxJobs
    /\ LET job == [id |-> nextId,
                   type |-> type,
                   priority |-> priority,
                   createdAt |-> now,
                   attempts |-> 0,
                   maxAttempts |-> IF maxAttemptsArg = 0 THEN DefaultMaxAttempts
                                   ELSE maxAttemptsArg,
                   nextRetry |-> {},
                   status |-> "pending",
                   error |-> {}]
           js == [j \in DOMAIN jobs \cup {nextId} |->
                    IF j = nextId THEN job ELSE jobs[j]]
           insertIndex == findInsertPosition(queue, jobs, priority)
       IN  /\ queue' = SubSeq(queue, 1, insertIndex - 1) \o <<nextId>>
                       \o SubSeq(queue, insertIndex, Len(queue))
           /\ jobs' = js
           /\ immediates' = immediates + 1
           /\ fifo' = fifo \cup {<<a, nextId>> : a \in
                        {a \in window \cap DOMAIN jobs : jobs[a].priority = priority}}
           /\ window' = window \cup {nextId}
    /\ nextId' = nextId + 1
    /\ UNCHANGED <<isProcessing, processingInterval, intervals, wakeDue, inflight, now>>

\* The body of addJob(type, {priority, maxAttempts}), as its callers in
\* cron-jobs.ts run it: everything but the ApiResponse handed back.
addJob(type, priority, maxAttemptsArg) ==
    /\ nextId <= MaxJobs
    /\ LET job == [id |-> nextId,
                   type |-> type,
                   priority |-> priority,
                   createdAt |-> now,
                   attempts |-> 0,
                   maxAttempts |-> IF maxAttemptsArg = 0 THEN DefaultMaxAttempts
                                   ELSE maxAttemptsArg,
                   nextRetry |-> {},
                   status |-> "pending",
                   error |-> {}]
           js == [j \in DOMAIN jobs \cup {nextId} |->
                    IF j = nextId THEN job ELSE jobs[j]]
           insertIndex == findInsertPosition(queue, jobs, priority)
       IN  /\ queue' = SubSeq(queue, 1, insertIndex - 1) \o <<nextId>>
                       \o SubSeq(queue, insertIndex, Len(queue))
           /\ jobs' = js
           /\ immediates' = IF priority = "high" /\ isProcessing
                            THEN immediates + 1 ELSE immediates
           /\ fifo' = fifo \cup {<<a, nextId>> : a \in
                        {a \in window \cap DOMAIN jobs : jobs[a].priority = priority}}
           /\ window' = window \cup {nextId}
    /\ nextId' = nextId + 1
    /\ UNCHANGED <<isProcessing, processingInterval, intervals, wakeDue, inflight, now>>

\* addJob(type, {priority, maxAttempts}) called on the queue
AddJob(type, priority, maxAttemptsArg) ==
    /\ addJob(type, priority, maxAttemptsArg)
    /\ response' = [op |-> "addJob", successful |-> TRUE]
    /\ UNCHANGED cronVars

\* The callback of setInterval(..., 30000).  It may run any number of times
\* between two steps of the clock, which are further apart than the interval.
PeriodicWake ==
    /\ processingInterval
    /\ wakeDue' = FALSE
    /\ Wake(isProcessing)
    /\ UNCHANGED <<isProcessing, processingInterval, intervals, immediates, now, nextId,
                   response>>
    /\ UNCHANGED cronVars

\* The callback of setImmediate, processQueue not testing isProcessing.
ImmediateWake_noActiveCheck ==
    /\ immediates > 0
    /\ immediates' = immediates - 1
    /\ Wake(TRUE)
    /\ UNCHANGED <<isProcessing, processingInterval, intervals, wakeDue, now, nextId,
                   response>>
    /\ UNCHANGED cronVars

\* The callback of setImmediate(() => this.processQueue())
ImmediateWake ==
    /\ immediates > 0
    /\ immediates' = immediates - 1
    /\ Wake(isProcessing)
    /\ UNCHANGED <<isProcessing, processingInterval, intervals, wakeDue, now, nextId,
                   response>>
    /\ UNCHANGED cronVars

\* The rest of processQueue once the awaited handler of job j has answered:
\* the outcome is recorded on the job and cleanupOldJobs runs.
HandlerDone(j, successful) ==
    /\ j \in inflight
    /\ successful \in Outcomes(jobs[j].type)
    /\ LET js == IF successful
                 THEN [jobs EXCEPT ![j].status = "completed"]
                 ELSE handleJobFailure(jobs, j, "handler error", now)
           q == cleanupOldJobs(queue, js, now)
       IN  /\ queue' = q
           /\ inflight' = inflight \ {j}
           /\ jobs' = Live(q, inflight \ {j}, js)
           /\ fifo' = LivePairs(fifo, q, inflight \ {j})
    /\ UNCHANGED <<isProcessing, processingInterval, intervals, wakeDue, immediates,
                   now, nextId, response, window>>
    /\ UNCHANGED cronVars

\* cancelJob without the tests of the job's status.
CancelJob_noStateCheck(jobId) ==
    /\ IF jobId \notin Range(queue)
       THEN /\ response' = [op |-> "cancelJob", successful |-> FALSE]
            /\ UNCHANGED <<queue, jobs, fifo>>
       ELSE LET keep(j) == j # jobId
                q == SelectSeq(queue, keep)
            IN  /\ queue' = q
                /\ jobs' = Live(q, inflight, jobs)
                /\ fifo' = LivePairs(fifo, q, inflight)
                /\ response' = [op |-> "cancelJob", successful |-> TRUE]
    /\ UNCHANGED <<isProcessing, processingInterval, intervals, wakeDue, immediates,
                   inflight, now, nextId, window>>
    /\ UNCHANGED cronVars

\* cancelJob(jobId)
CancelJob(jobId) ==
    /\ IF jobId \notin Range(queue) \/ jobs[jobId].status # "pending"
       THEN /\ response' = [op |-> "cancelJob", successful |-> FALSE]
            /\ UNCHANGED <<queue, jobs, fifo>>
       ELSE LET keep(j) == j # jobId
                q == SelectSeq(queue, keep)
            IN  /\ queue' = q
                /\ jobs' = Live(q, inflight, jobs)
                /\ fifo' = LivePairs(fifo, q, inflight)
                /\ response' = [op |-> "cancelJob", successful |-> TRUE]
    /\ UNCHANGED <<isProcessing, processingInterval, intervals, wakeDue, immediates,
                   inflight, now, nextId, window>>
    /\ UNCHANGED cronVars

\* Time passes: TickStep seconds, which is more than WakeInterval, so the
\* interval's callback runs at least once between two steps of the clock, and
\* every callback of setImmediate has run (they run in the same turn of the
\* event loop).
Tick ==
    /\ now + TickStep <= MaxTime
    /\ ~wakeDue
    /\ immediates = 0
    /\ now' = now + TickStep
    /\ wakeDue' = (processingInterval /\ TickStep >= WakeInterval)
    /\ UNCHANGED <<queue, jobs, isProcessing, processingInterval, intervals,
                   immediates, inflight, nextId, response, window, fifo>>
    /\ UNCHANGED cronVars

Next ==
    \/ Start
    \/ Stop
    \/ \E r \in Requests : AddJob(r[1], r[2], r[3])
    \/ PeriodicWake
    \/ ImmediateWake
    \/ \E j \in inflight, ok \in BOOLEAN : HandlerDone(j, ok)
    \/ \E id \in CancelIds : CancelJob(id)
    \/ Tick

Spec == Init /\ [][Next]_vars

\* A long-running queue of maxJobs jobs, their ids -maxJobs .. -1: manual
\* triggers, one every PreloadGap seconds, whose type 'main-posting-manual' has
\* no case in executeJob.  All but the last have used their three attempts
\* (failed jobs are never dropped while the queue holds at most maxJobs jobs);
\* the last has failed twice, and stop() was called before its third attempt.
PreloadedIds == (0 - maxJobs) .. (0 - 1)

PreloadedJob(i) ==
    LET created == i * PreloadGap
        last == (i = 0 - 1)
    IN  [id |-> i,
         type |-> "main-posting-manual",
         priority |-> "high",
         createdAt |-> created,
         attempts |-> IF last THEN DefaultMaxAttempts - 1 ELSE DefaultMaxAttempts,
         maxAttempts |-> DefaultMaxAttempts,
         nextRetry |-> {created + Pow2(1) * BaseDelay + Pow2(2) * BaseDelay},
         status |-> IF last THEN "pending" ELSE "failed",
         error |-> {"Job type not supported"}]

InitFull ==
    /\ queue = [k \in 1 .. maxJobs |-> k - maxJobs - 1]
    /\ jobs = [i \in PreloadedIds |-> PreloadedJob(i)]
    /\ isProcessing = FALSE
    /\ processingInterval = FALSE
    /\ intervals = 0
    /\ wakeDue = FALSE
    /\ immediates = 0
    /\ inflight = {}
    /\ now = 0
    /\ nextId = 1
    /\ response = [op |-> "stop", successful |-> TRUE]
    /\ window = {}
    /\ fifo = {}
    /\ cron = NoCron
    /\ env = DefaultEnv

NextFull ==
    \/ Start
    \/ Stop
    \/ \E r \in CronRequests : AddJob(r[1], r[2], r[3])
    \/ PeriodicWake
    \/ ImmediateWake
    \/ \E j \in inflight, ok \in BOOLEAN : HandlerDone(j, ok)
    \/ \E id \in CancelIds : CancelJob(id)
    \/ Tick

SpecFull == InitFull /\ [][NextFull]_vars

\* ------------------------------------------------------------ cron-jobs.ts

\* The names of jobDefinitions, in its order.
ScheduleNames == <<"main-posting", "backup", "health-check", "cleanup">>

\* cron.validate of node-cron, on the expressions explored: the default of
\* CRON_SCHEDULE, the three fixed schedules and '*/5 * * * *' are cron
\* expressions, 'not-a-cron' is not.
ValidCron == {"0 9 * * *", "0 2 * * *", "0 */6 * * *", "0 3 * * 0", "*/5 * * * *"}

validate(expr) == expr \in ValidCron

\* The values of CRON_SCHEDULE and RUN_NOW explored.
Envs == [cronSchedule : {"0 9 * * *", "not-a-cron"}, RUN_NOW : BOOLEAN]

\* The arguments updateMainSchedule is called with.
UpdateArgs == {"*/5 * * * *", "not-a-cron"}

\* The map initializeJobs builds: a new JobInfo per definition, task null and
\* no lastRun.
initializeJobs(e) ==
    [n \in Range(ScheduleNames) |->
        [schedule |-> CASE n = "main-posting" -> e.cronSchedule
                        [] n = "backup" -> "0 2 * * *"
                        [] n = "health-check" -> "0 */6 * * *"
                        [] n = "cleanup" -> "0 3 * * 0",
         task |-> {},
         lastRun |-> {}]]

\* scheduleMainJob without the test of the schedule.
scheduleMainJob_noValidate(c, e) ==
    IF "main-posting" \notin DOMAIN c.jobs THEN c
    ELSE LET c1 == IF e.RUN_NOW THEN [c EXCEPT !.timeouts = @ + 1] ELSE c
         IN  [c1 EXCEPT !.jobs["main-posting"].task =
                            {c1.jobs["main-posting"].schedule}]

\* scheduleMainJob: the setTimeout of RUN_NOW, then the task if the schedule
\* is a cron expression.
scheduleMainJob(c, e) ==
    IF "main-posting" \notin DOMAIN c.jobs THEN c
    ELSE LET c1 == IF e.RUN_NOW THEN [c EXCEPT !.timeouts = @ + 1] ELSE c
             schedule == c1.jobs["main-posting"].schedule
         IN  IF ~validate(schedule) THEN c1
             ELSE [c1 EXCEPT !.jobs["main-posting"].task = {schedule}]

\* scheduleBackupJob, scheduleHealthCheckJob, scheduleCleanupJob: the task is
\* created from the JobInfo's schedule and started.
scheduleJob(c, name) ==
    IF name \notin DOMAIN c.jobs THEN c
    ELSE [c EXCEPT !.jobs[name].task = {c.jobs[name].schedule}]

startAllJobs(c, e) ==
    scheduleJob(scheduleJob(scheduleJob(scheduleMainJob(c, e),
                                        "backup"), "health-check"), "cleanup")

\* The started tasks the map holds, as <<name, schedule>> records.
armedTasks(c) ==
    LET armed(n) == n \in DOMAIN c.jobs /\ c.jobs[n].task # {}
        names == SelectSeq(ScheduleNames, armed)
    IN  [i \in 1 .. Len(names) |->
            [name |-> names[i],
             schedule |-> CHOOSE x \in c.jobs[names[i]].task : TRUE]]

\* The priority of the job a schedule's callback enqueues.
firedPriority(name) == IF name = "main-posting" THEN "high" ELSE "low"

\* running: this.isRunning && jobInfo.task !== null (getStatus, getJobStatus)
running(c, name) ==
    /\ name \in DOMAIN c.jobs
    /\ c.isRunning
    /\ c.jobs[name].task # {}

\* The body of start(): initializeJobs replaces every JobInfo of the map; a
\* task a replaced JobInfo held stays started.
cronJobsStart ==
    IF cron.isRunning
    THEN cron' = cron
    ELSE /\ Len(cron.orphans) + Len(armedTasks(cron)) <= MaxOrphans
         /\ env.RUN_NOW => cron.timeouts < MaxTimeouts
         /\ cron' = [startAllJobs([cron EXCEPT
                                       !.jobs = initializeJobs(env),
                                       !.orphans = @ \o armedTasks(cron)],
                                  env)
                       EXCEPT !.isRunning = TRUE]

\* The body of stop()
cronJobsStop ==
    cron' = [cron EXCEPT
                !.jobs = [n \in DOMAIN cron.jobs |->
                            [cron.jobs[n] EXCEPT !.task = {}]],
                !.isRunning = FALSE]

\* start()
CronStart ==
    /\ cronJobsStart
    /\ response' = [op |-> "cronStart", successful |-> TRUE, error |-> {}]
    /\ UNCHANGED <<queueVars, env>>

\* stop()
CronStop ==
    /\ cronJobsStop
    /\ response' = [op |-> "cronStop", successful |-> TRUE, error |-> {}]
    /\ UNCHANGED <<queueVars, env>>

\* updateMainSchedule without the test of the new expression.
UpdateMainSchedule_noValidate(newSchedule) ==
    /\ IF "main-posting" \notin DOMAIN cron.jobs
       THEN /\ cron' = cron
            /\ response' = [op |-> "updateMainSchedule", successful |-> FALSE,
                            error |-> {"Job not initialized"}]
       ELSE /\ env.RUN_NOW => cron.timeouts < MaxTimeouts
            /\ cron' = scheduleMainJob(
                           [cron EXCEPT !.jobs["main-posting"].task = {},
                                        !.jobs["main-posting"].schedule = newSchedule],
                           env)
            /\ response' = [op |-> "updateMainSchedule", successful |-> TRUE,
                            error |-> {}]
    /\ UNCHANGED <<queueVars, env>>

\* updateMainSchedule(newSchedule)
UpdateMainSchedule(newSchedule) ==
    /\ IF ~validate(newSchedule)
       THEN /\ cron' = cron
            /\ response' = [op |-> "updateMainSchedule", successful |-> FALSE,
                            error |-> {"Schedule format is invalid"}]
       ELSE IF "main-posting" \notin DOMAIN cron.jobs
       THEN /\ cron' = cron
            /\ response' = [op |-> "updateMainSchedule", successful |-> FALSE,
                            error |-> {"Job not initialized"}]
       ELSE /\ env.RUN_NOW => cron.timeouts < MaxTimeouts
            /\ cron' = scheduleMainJob(
                           [cron EXCEPT !.jobs["main-posting"].task = {},
                                        !.jobs["main-posting"].schedule = newSchedule],
                           env)
            /\ response' = [op |-> "updateMainSchedule", successful |-> TRUE,
                            error |-> {}]
    /\ UNCHANGED <<queueVars, env>>

\* triggerMainJob that enqueues only while the scheduler is running.
TriggerMainJob_whenRunning ==
    /\ IF cron.isRunning
       THEN addJob("main-posting-manual", "high", 0)
       ELSE UNCHANGED queueVars
    /\ response' = [op |-> "triggerMainJob", successful |-> TRUE, error |-> {}]
    /\ UNCHANGED cronVars

\* triggerMainJob()
TriggerMainJob ==
    /\ addJob("main-posting-manual", "high", 0)
    /\ response' = [op |-> "triggerMainJob", successful |-> TRUE, error |-> {}]
    /\ UNCHANGED cronVars

\* The callback of the task of schedule `name` runs: lastRun is written, then
\* the main-posting, health-check and cleanup callbacks call addJob and the
\* backup callback calls memoryStore.createBackup().
Fire(name) ==
    /\ name \in DOMAIN cron.jobs
    /\ cron.jobs[name].task # {}
    /\ cron' = [cron EXCEPT !.jobs[name].lastRun = {now}]
    /\ IF name = "backup"
       THEN UNCHANGED queueVars
       ELSE addJob(name, firedPriority(name), 0)
    /\ UNCHANGED <<response, env>>

\* The callback of a task no JobInfo of the map holds: it writes lastRun to
\* the JobInfo it was created for, which the map no longer holds.
FireOrphan(i) ==
    /\ i \in 1 .. Len(cron.orphans)
    /\ IF cron.orphans[i].name = "backup"
       THEN UNCHANGED queueVars
       ELSE addJob(cron.orphans[i].name, firedPriority(cron.orphans[i].name), 0)
    /\ UNCHANGED <<response, cronVars>>

\* The callback of setTimeout(..., 5000) of RUN_NOW
RunNowTimeout ==
    /\ cron.timeouts > 0
    /\ cron' = [cron EXCEPT !.timeouts = @ - 1]
    /\ addJob("main-posting", "high", 0)
    /\ UNCHANGED <<response, env>>

\* Time passes; the 5 seconds of a waiting setTimeout are over before the
\* clock's next step.
TickCron ==
    /\ cron.timeouts = 0
    /\ Tick

\* The scheduler as app.ts runs it: cronJobs.start() is called, the queue's
\* start() is not, so what the schedules enqueue stays pending.
InitCron ==
    /\ queue = <<>>
    /\ jobs = <<>>
    /\ isProcessing = FALSE
    /\ processingInterval = FALSE
    /\ intervals = 0
    /\ wakeDue = FALSE
    /\ immediates = 0
    /\ inflight = {}
    /\ now = 0
    /\ nextId = 1
    /\ response = NoResponse
    /\ window = {}
    /\ fifo = {}
    /\ cron = NoCron
    /\ env \in Envs

NextCron ==
    \/ CronStart
    \/ CronStop
    \/ \E e \in UpdateArgs : UpdateMainSchedule(e)
    \/ TriggerMainJob
    \/ \E n \in Range(ScheduleNames) : Fire(n)
    \/ \E i \in 1 .. MaxOrphans : FireOrphan(i)
    \/ RunNowTimeout
    \/ TickCron

SpecCron == InitCron /\ [][NextCron]_vars

\* ------------------------------------------------------------------ app.ts

\* Application.initialize(): the two validations return early; a failure of
\* memoryStore.initialize, of a probe of validateExternalServices or of
\* cronJobs.start() is logged and nothing more.  The scheduler is started;
\* no statement of app.ts calls a method of the queue.
AppInitialize(envValid, configValid) ==
    /\ IF ~envValid \/ ~configValid
       THEN /\ cron' = cron
            /\ response' = [op |-> "initialize", successful |-> FALSE,
                            error |-> {IF ~envValid
                                       THEN "Environment validation failed"
                                       ELSE "Configuration validation failed"}]
       ELSE /\ cronJobsStart
            /\ response' = [op |-> "initialize", successful |-> TRUE, error |-> {}]
    /\ UNCHANGED <<queueVars, env>>

\* Application.shutdown(): cronJobs.stop(), then memoryStore.createBackup().
AppShutdown ==
    /\ cronJobsStop
    /\ response' = [op |-> "shutdown", successful |-> TRUE, error |-> {}]
    /\ UNCHANGED <<queueVars, env>>

\* The application: initialize, the callbacks of the timers it arms, shutdown.
NextApp ==
    \/ \E envValid, configValid \in BOOLEAN : AppInitialize(envValid, configValid)
    \/ AppShutdown
    \/ \E n \in Range(ScheduleNames) : Fire(n)
    \/ RunNowTimeout
    \/ TickCron

SpecApp == InitCron /\ [][NextApp]_vars

\* The queue called with any parameters.
NextAny ==
    \/ Start
    \/ Stop
    \/ \E r \in AnyRequests : AddJob(r[1], r[2], r[3])
    \/ PeriodicWake
    \/ ImmediateWake
    \/ \E j \in inflight, ok \in BOOLEAN : HandlerDone(j, ok)
    \/ \E id \in CancelIds : CancelJob(id)
    \/ Tick

SpecAny == Init /\ [][NextAny]_vars

\* ----------------------------------------------------- reading the state

\* Job parameters outside the declared types of addJob's jobData: priority
\* is 'high' | 'medium' | 'low', maxAttempts (when given) a count of attempts.
Malformed(priority, maxAttemptsArg) ==
    \/ priority \notin {"high", "medium", "low"}
    \/ maxAttemptsArg < 0

\* --------------------------------------------------- a backlog of pending jobs

\* The queue as app.ts leaves it: cronJobs.start() is called and the queue's
\* start() is not, so what the schedules enqueue stays pending.  Here the
\* queue holds maxJobs 'cleanup' jobs, one every PreloadGap seconds, none of
\* them dispatched yet.
BacklogJob(i) ==
    [id |-> i,
     type |-> "cleanup",
     priority |-> "low",
     createdAt |-> i * PreloadGap,
     attempts |-> 0,
     maxAttempts |-> DefaultMaxAttempts,
     nextRetry |-> {},
     status |-> "pending",
     error |-> {}]

InitBacklog ==
    /\ queue = [k \in 1 .. maxJobs |-> k - maxJobs - 1]
    /\ jobs = [i \in PreloadedIds |-> BacklogJob(i)]
    /\ isProcessing = FALSE
    /\ processingInterval = FALSE
    /\ intervals = 0
    /\ wakeDue = FALSE
    /\ immediates = 0
    /\ inflight = {}
    /\ now = 0
    /\ nextId = 1
    /\ response = NoResponse
    /\ window = {}
    /\ fifo = {}
    /\ cron = NoCron
    /\ env = DefaultEnv

\* The periodic wake, as long as the backlog has lost fewer than
\* MaxBacklogRuns of its pending jobs.
BacklogWake ==
    /\ Cardinality({j \in Range(queue) : j < 0 /\ jobs[j].status = "pending"})
           > maxJobs - MaxBacklogRuns
    /\ PeriodicWake

\* The executor is started and stays started, and no job is cancelled.
NextBacklog ==
    \/ Start
    \/ \E r \in CronRequests : AddJob(r[1], r[2], r[3])
    \/ BacklogWake
    \/ ImmediateWake
    \/ \E j \in inflight, ok \in BOOLEAN : HandlerDone(j, ok)
    \/ Tick

SpecBacklog == InitBacklog /\ [][NextBacklog]_vars

\* ------------------------------------------------- cleanupOldJobs by itself

\* The queues cleanupOldJobs is applied to: the latest 98, 99 or 100 of the
\* jobs of the long-running queue, followed by two jobs of medium priority
\* whose status and createdAt are drawn from the sets below.
FillerCounts == {maxJobs - 2, maxJobs - 1, maxJobs}

\* createdAt of the two drawn jobs, as seen at now = 0: before every other
\* job, a little more than the retention window ago, exactly the window ago,
\* and after every other job.
DrawnCreatedAt ==
    {0 - 2 * maxJobs * PreloadGap, 0 - RetentionWindow - 1, 0 - RetentionWindow,
     0 - 1}

Statuses == {"pending", "processing", "completed", "failed"}

DrawnJob(id, st, created) ==
    [id |-> id,
     type |-> "backup",
     priority |-> "medium",
     createdAt |-> created,
     attempts |-> IF st = "pending" THEN 0 ELSE 1,
     maxAttempts |-> 1,
     nextRetry |-> {},
     status |-> st,
     error |-> IF st = "failed" THEN {"handler error"} ELSE {}]

InitRetention ==
    \E n \in FillerCounts, s1, s2 \in Statuses, c1, c2 \in DrawnCreatedAt :
        /\ c1 <= c2
        /\ queue = [k \in 1 .. n + 2 |-> IF k <= n THEN k - n - 1 ELSE k - n]
        /\ jobs = [i \in ((0 - n) .. (0 - 1)) \cup {1, 2} |->
                     IF i < 0 THEN PreloadedJob(i)
                     ELSE IF i = 1 THEN DrawnJob(1, s1, c1)
                     ELSE DrawnJob(2, s2, c2)]
        /\ inflight = {i \in {1, 2} :
                          (IF i = 1 THEN s1 ELSE s2) = "processing"}
        /\ isProcessing = TRUE
        /\ processingInterval = TRUE
        /\ intervals = 1
        /\ wakeDue = FALSE
        /\ immediates = 0
        /\ now = 0
        /\ nextId = 3
        /\ response = NoResponse
        /\ window = {}
        /\ fifo = {}
        /\ cron = NoCron
        /\ env = DefaultEnv

\* cleanupOldJobs() applied to the queue; the length before is kept in the
\* record of the call.
CleanupOldJobs ==
    /\ response.op = "none"
    /\ queue' = cleanupOldJobs(queue, jobs, now)
    /\ jobs' = Live(queue', inflight, jobs)
    /\ response' = [op |-> "cleanupOldJobs", successful |-> TRUE,
                    before |-> Len(queue)]
    /\ UNCHANGED <<isProcessing, processingInterval, intervals, wakeDue, immediates,
                   inflight, now, nextId, window, fifo, cronVars>>

NextRetention == CleanupOldJobs

SpecRetention == InitRetention /\ [][NextRetention]_vars

\* ------------------------------------------------------- the queue's queries

\* The limits getRecentJobs is called with.
Limits == 0 .. 3

\* Array.prototype.slice(0, end): the first end elements, all of them if
\* there are fewer; a negative end counts from the end of the array.
slice(s, end) ==
    IF end >= 0
    THEN SubSeq(s, 1, IF end < Len(s) THEN end ELSE Len(s))
    ELSE SubSeq(s, 1, IF Len(s) + end > 0 THEN Len(s) + end ELSE 0)

\* getRecentJobs without the sort.
getRecentJobs_noSort(q, js, limit) == slice(q, limit)

\* getRecentJobs(limit): this.queue.slice().sort(...).slice(0, limit)
getRecentJobs(q, js, limit) == slice(SortByCreatedAtDesc(q, js), limit)

\* getQueueStatus(): the length of the array and one filter per status.
getQueueStatus(q, js) ==
    LET count(st) == Cardinality({i \in 1 .. Len(q) : js[q[i]].status = st})
    IN  [totalJobs |-> Len(q),
         pendingJobs |-> count("pending"),
         processingJobs |-> count("processing"),
         completedJobs |-> count("completed"),
         failedJobs |-> count("failed")]

\* getRecentJobs(limit) called on the queue; the answer is a new array.
GetRecentJobs(limit) ==
    /\ response' = [op |-> "getRecentJobs", successful |-> TRUE, limit |-> limit,
                    result |-> getRecentJobs(queue, jobs, limit)]
    /\ UNCHANGED <<queueVars, cronVars>>

\* getQueueStatus() called on the queue
GetQueueStatus ==
    /\ response' = [op |-> "getQueueStatus", successful |-> TRUE,
                    result |-> getQueueStatus(queue, jobs)]
    /\ UNCHANGED <<queueVars, cronVars>>

\* The queue and its queries.
NextQuery ==
    \/ Start
    \/ Stop
    \/ \E r \in Requests : AddJob(r[1], r[2], r[3])
    \/ PeriodicWake
    \/ ImmediateWake
    \/ \E j \in inflight, ok \in BOOLEAN : HandlerDone(j, ok)
    \/ \E id \in CancelIds : CancelJob(id)
    \/ Tick
    \/ \E limit \in Limits : GetRecentJobs(limit)
    \/ GetQueueStatus

SpecQuery == Init /\ [][NextQuery]_vars

\* The jobs of the array, as a set of ids.
Queued == Range(queue)

\* The jobs a dequeue could select now.
EligibleNow == {j \in Queued : Eligible(jobs[j], now)}

Weight(j) == priorityOrder[jobs[j].priority]

\* Job j is dispatched by this step: it was pending and the step has written
\* to it (a pending job is written to by nothing else).
DispatchedInStep(j) ==
    /\ j \in DOMAIN jobs /\ j \in DOMAIN jobs'
    /\ jobs[j].status = "pending"
    /\ jobs'[j] # jobs[j]

\* An attempt of job j ends in failure in this step: either its awaited
\* handler answers, or it is dispatched and fails within the step.
FailedInStep(j) ==
    /\ j \in DOMAIN jobs /\ j \in DOMAIN jobs'
    /\ \/ jobs[j].status = "processing" /\ jobs'[j].status \in {"pending", "failed"}
       \/ DispatchedInStep(j) /\ jobs'[j].status \in {"pending", "failed"}

\* A processing cycle ends in this step: an awaited handler answers, or a
\* job is dispatched and its outcome is known within the step.  Either way
\* the outcome is recorded and cleanupOldJobs has run.
CycleEnds ==
    \/ \E j \in inflight : j \notin inflight'
    \/ \E j \in DOMAIN jobs : DispatchedInStep(j) /\ jobs'[j].status # "processing"

\* ------------------------------------------------------------------ claims

\* C1: in every reachable state at most one job of the queue has status
\* processing (no two handlers are in flight at once).
C1_SingleProcessing ==
    Cardinality({j \in Queued : jobs[j].status = "processing"}) <= 1

\* C2: in every reachable queue state the job a dequeue selects has the
\* highest priority among the eligible jobs (pending, nextRetry absent or
\* passed).
C2_PrioritySelected ==
    LET j == nextJob(queue, jobs, now)
    IN  j # 0 => \A k \in EligibleNow : Weight(k) <= Weight(j)

\* C3: in every reachable queue state the job a dequeue selects is, among
\* the eligible jobs of the highest priority present, one with the earliest
\* createdAt.
C3_EarliestOfTopTier ==
    LET j == nextJob(queue, jobs, now)
        top == {k \in EligibleNow : \A m \in EligibleNow : Weight(m) <= Weight(k)}
    IN  j # 0 => /\ j \in top
                 /\ \A k \in top : jobs[j].createdAt <= jobs[k].createdAt

\* C4: if a and then b of equal priority were enqueued with no dispatch between
\* the two enqueues, b is never dispatched while a is in the queue, pending
\* and eligible.
C4_FifoWithinTier ==
    [][\A p \in fifo :
          DispatchedInStep(p[2]) => ~(p[1] \in EligibleNow)]_vars


\* C5: for a job with maxAttempts >= 1, attempts never exceeds maxAttempts,
\* attempts grows by exactly 1 per dispatch and by nothing else, and the job
\* becomes failed exactly at the failed attempt that makes attempts equal
\* maxAttempts (an earlier failed attempt leaves it pending).
C5_AttemptsBounded ==
    /\ [](\A j \in DOMAIN jobs :
            jobs[j].maxAttempts >= 1 => jobs[j].attempts <= jobs[j].maxAttempts)
    /\ [][\A j \in DOMAIN jobs \cap DOMAIN jobs' :
            jobs[j].maxAttempts >= 1 =>
              /\ jobs'[j].attempts =
                    jobs[j].attempts + (IF DispatchedInStep(j) THEN 1 ELSE 0)
              /\ FailedInStep(j) =>
                    (jobs'[j].status = "failed"
                        <=> jobs'[j].attempts = jobs'[j].maxAttempts)
              /\ (jobs'[j].status = "failed" /\ jobs[j].status # "failed") =>
                    FailedInStep(j)]_vars

C5_Witness ==
    \E j \in DOMAIN jobs :
        /\ jobs[j].type = "main-posting"
        /\ jobs[j].status = "failed"
        /\ jobs[j].attempts = 3 /\ jobs[j].maxAttempts = 3

\* C6: once a job is completed or failed no step changes any of its fields;
\* it can only leave the queue.
C6_TerminalFrozen ==
    [][\A j \in DOMAIN jobs :
          (jobs[j].status \in {"completed", "failed"} /\ j \in DOMAIN jobs')
              => jobs'[j] = jobs[j]]_vars

\* A completed job and a failed job are in the queue and the latest call was
\* a cancel that was refused.
C6_Witness ==
    /\ \E j \in Queued, k \in Queued :
          jobs[j].status = "completed" /\ jobs[k].status = "failed"
    /\ response = [op |-> "cancelJob", successful |-> FALSE]

\* C7: a job with maxAttempts = 3 whose attempts all fail gets nextRetry set
\* 60, 120 and 240 seconds after its 1st, 2nd and 3rd failed attempt, and is
\* failed exactly after the 3rd.
C7_BackoffSequence ==
    [][\A j \in DOMAIN jobs \cap DOMAIN jobs' :
          (FailedInStep(j) /\ jobs[j].maxAttempts = 3) =>
              /\ jobs'[j].nextRetry = {now + 60 * 2 ^ (jobs'[j].attempts - 1)}
              /\ jobs'[j].status = "failed" <=> jobs'[j].attempts = 3]_vars

C9_UnregisteredFailsOnce ==
    \A j \in DOMAIN jobs :
        (jobs[j].type \notin RegisteredTypes /\ jobs[j].attempts >= 1) =>
            (jobs[j].status = "failed" /\ jobs[j].attempts = 1)

\* C10: cancelJob on an unknown id or on a job that is processing, completed
\* or failed answers with an error and leaves the queue and every job as they
\* were; on a pending job (waiting in backoff or not) it succeeds, removes
\* exactly that job and leaves the others unchanged, getJob no longer finds
\* it, and it is never dispatched: a job that has left the queue never
\* returns to it, and only jobs of the queue are dispatched.
C10_Cancel ==
    [][/\ \A id \in CancelIds :
            CancelJob(id) =>
              IF id \in Queued /\ jobs[id].status = "pending"
              THEN /\ response'.successful
                   /\ queue' = SelectSeq(queue, LAMBDA j : j # id)
                   /\ id \notin Range(queue')
                   /\ \A k \in DOMAIN jobs \ {id} :
                         k \in DOMAIN jobs' /\ jobs'[k] = jobs[k]
              ELSE /\ ~response'.successful
                   /\ queue' = queue
                   /\ jobs' = jobs
       /\ \A id \in 1 .. MaxJobs :
            (id < nextId /\ id \notin Queued) => id \notin Range(queue')
       /\ \A j \in DOMAIN jobs : DispatchedInStep(j) => j \in Queued]_vars

\* A job waiting in backoff has just been cancelled while another job is
\* being processed.
C10_Witness ==
    /\ response = [op |-> "cancelJob", successful |-> TRUE]
    /\ nextId = 3
    /\ Len(queue) = 1
    /\ jobs[queue[1]].status = "processing"

\* C11: addJob with a priority outside {high, medium, low} or a maxAttempts
\* that is not an integer >= 1 is rejected and leaves the queue unchanged;
\* every other addJob succeeds and adds exactly one job, pending, with
\* attempts = 0 and no nextRetry, leaving the resident jobs unchanged.
C11_EnqueueValidates ==
    [][\A r \in AnyRequests :
          AddJob(r[1], r[2], r[3]) =>
            IF Malformed(r[2], r[3])
            THEN /\ ~response'.successful
                 /\ queue' = queue
                 /\ jobs' = jobs
            ELSE /\ response'.successful
                 /\ Len(queue') = Len(queue) + 1
                 /\ Range(queue') = Range(queue) \cup {nextId}
                 /\ jobs'[nextId].status = "pending"
                 /\ jobs'[nextId].attempts = 0
                 /\ jobs'[nextId].nextRetry = {}
                 /\ \A k \in DOMAIN jobs : jobs'[k] = jobs[k]]_vars

\* C12: at the moment a processing cycle finishes (outcome recorded,
\* cleanupOldJobs applied) the queue holds at most maxJobs jobs; it holds more
\* only between the end of one cycle and the end of the next.
C12_RetentionBound ==
    [][CycleEnds => Len(queue') <= maxJobs]_vars

\* Two jobs were added to a queue of maxJobs jobs, a cycle has ended and the
\* queue is back at maxJobs jobs, the oldest one gone.
C12_Witness ==
    /\ Len(queue) = maxJobs
    /\ nextId = 3
    /\ inflight = {}
    /\ (0 - maxJobs) \notin Queued
    /\ \E j \in Queued : j > 0 /\ jobs[j].status = "completed"

\* C13: a run of the retention policy never removes a job that is pending,
\* processing or failed, whatever the queue holds: every such job of the
\* queue is still in it when the cycle has ended.
C13_RetentionKeepsLive ==
    [][CycleEnds =>
          \A j \in Queued :
              jobs[j].status \in {"pending", "processing", "failed"}
                  => j \in Range(queue')]_vars

\* C15: a job that carries a nextRetry is never dispatched before that time,
\* and a wake at which no job of the queue is eligible dispatches nothing and
\* leaves the queue and every job as they were (cleanupOldJobs does not run).
C15_BackoffRespected ==
    [][/\ \A j \in DOMAIN jobs :
             DispatchedInStep(j) => \A r \in jobs[j].nextRetry : r <= now
       /\ ((PeriodicWake \/ ImmediateWake) /\ EligibleNow = {}) =>
             (queue' = queue /\ jobs' = jobs /\ inflight' = inflight)]_vars

\* The executor is active, the queue holds more than maxJobs jobs and none of
\* them is eligible: one waits for its second attempt, one is being processed.
C15_Witness ==
    /\ isProcessing /\ processingInterval
    /\ Len(queue) > maxJobs
    /\ EligibleNow = {}
    /\ \E j \in Queued : /\ jobs[j].status = "pending"
                          /\ jobs[j].attempts = 1
                          /\ \E r \in jobs[j].nextRetry : r > now
    /\ \E j \in Queued : jobs[j].status = "processing"

\* C14: updateMainSchedule with an expression that is no cron expression
\* answers with a validation error and changes nothing: schedule, lastRun and
\* task of every JobInfo are as before (so the armed task keeps firing) and
\* no job is enqueued, now or later.
C14_InvalidUpdateRejected ==
    [][\A e \in UpdateArgs :
          (UpdateMainSchedule(e) /\ ~validate(e)) =>
              /\ ~response'.successful
              /\ response'.error = {"Schedule format is invalid"}
              /\ cron' = cron
              /\ queue' = queue
              /\ jobs' = jobs]_vars

\* The latest call was an update that was refused for its expression, while
\* the main-posting task is armed and has fired.
C14_Witness ==
    /\ response = [op |-> "updateMainSchedule", successful |-> FALSE,
                   error |-> {"Schedule format is invalid"}]
    /\ running(cron, "main-posting")
    /\ cron.jobs["main-posting"].lastRun # {}

\* The tasks that are started: those the map holds and those it has lost.
ArmedTimers ==
    Range(armedTasks(cron)) \cup Range(cron.orphans)

\* The number of started tasks whose callback enqueues for schedule `name`.
TimerCount(c, name) ==
    Cardinality({i \in 1 .. Len(armedTasks(c)) : armedTasks(c)[i].name = name})
        + Cardinality({i \in 1 .. Len(c.orphans) : c.orphans[i].name = name})

\* C16: start() while running answers ok and changes nothing of the
\* scheduler; stop() while stopped answers ok and changes nothing; after
\* start() from stopped every schedule with a valid expression has a started
\* task; after stop() no task is started.
C16_StartStopIdempotent ==
    [][/\ (CronStart /\ cron.isRunning) =>
             (response'.successful /\ cron' = cron)
       /\ (CronStop /\ ~cron.isRunning) =>
             (response'.successful /\ cron' = cron)
       /\ (CronStart /\ ~cron.isRunning) =>
             \A n \in Range(ScheduleNames) :
                 validate(cron'.jobs[n].schedule) => cron'.jobs[n].task # {}
       /\ CronStop => ArmedTimers' = {}]_vars

\* C17: after a successful updateMainSchedule(e) the schedule is e, the task
\* armed before never fires again, exactly one task is started for
\* main-posting and it uses e, the other schedules are unchanged, and the
\* update enqueues no job, now or later.
C17_UpdateRearms ==
    [][\A e \in UpdateArgs :
          (UpdateMainSchedule(e) /\ response'.successful) =>
              /\ cron'.jobs["main-posting"].schedule = e
              /\ cron'.jobs["main-posting"].task = {e}
              /\ TimerCount(cron', "main-posting") = 1
              /\ \A n \in DOMAIN cron.jobs \ {"main-posting"} :
                    cron'.jobs[n] = cron.jobs[n]
              /\ queue' = queue
              /\ jobs' = jobs
              /\ cron'.timeouts = cron.timeouts]_vars

\* C18: every firing of every schedule's task sets that schedule's lastRun to
\* the time of the firing and adds exactly one new pending job of the
\* schedule's type and priority to the queue, leaving the resident jobs
\* unchanged.
C18_FiringEnqueues ==
    [][\A n \in Range(ScheduleNames) :
          Fire(n) =>
              /\ cron'.jobs[n].lastRun = {now}
              /\ Len(queue') = Len(queue) + 1
              /\ Range(queue') = Range(queue) \cup {nextId}
              /\ jobs'[nextId].type = n
              /\ jobs'[nextId].priority = firedPriority(n)
              /\ jobs'[nextId].status = "pending"
              /\ \A k \in DOMAIN jobs : jobs'[k] = jobs[k]]_vars

\* C19: triggerMainJob adds exactly one new pending job of priority high,
\* created at the time of the call, whether the scheduler is running or not,
\* and changes nothing of the scheduler.
C19_ManualTrigger ==
    [][TriggerMainJob =>
          /\ response'.successful
          /\ Len(queue') = Len(queue) + 1
          /\ Range(queue') = Range(queue) \cup {nextId}
          /\ jobs'[nextId].status = "pending"
          /\ jobs'[nextId].priority = "high"
          /\ jobs'[nextId].createdAt = now
          /\ jobs'[nextId].attempts = 0
          /\ \A k \in DOMAIN jobs : jobs'[k] = jobs[k]
          /\ cron' = cron]_vars

\* The latest call was a manual trigger, made after the scheduler had been
\* started and stopped, and its job is in the queue.
C19_Witness ==
    /\ response = [op |-> "triggerMainJob", successful |-> TRUE, error |-> {}]
    /\ ~cron.isRunning
    /\ DOMAIN cron.jobs # {}
    /\ now > 0
    /\ \E j \in Queued : /\ jobs[j].type = "main-posting-manual"
                          /\ jobs[j].createdAt = now
                          /\ jobs[j].status = "pending"

C21_ImmediateWake ==
    [][/\ \A r \in Requests :
             AddJob(r[1], r[2], r[3]) =>
                 /\ immediates' = IF r[2] = "high" /\ isProcessing
                                  THEN immediates + 1 ELSE immediates
                 /\ jobs'[nextId].status = "pending"
                 /\ wakeDue' = wakeDue
       /\ (now' # now) => immediates = 0]_vars

\* A high job has just been enqueued on a started executor: a call of
\* processQueue is waiting and the periodic one is not due.
C21_Witness ==
    /\ response.op = "addJob"
    /\ isProcessing
    /\ immediates > 0
    /\ ~wakeDue
    /\ \E j \in Queued : /\ jobs[j].priority = "high"
                          /\ jobs[j].status = "pending"
                          /\ jobs[j].attempts = 0
                          /\ jobs[j].createdAt = now

\* C22: getRecentJobs(limit) answers min(limit, total) jobs of the queue, no
\* job twice, latest createdAt first, no job left out being later than one
\* answered, and leaves the array and its jobs as they are; the counts of
\* getQueueStatus add up to its total.
C22_Queries ==
    [][/\ \A limit \in Limits :
             GetRecentJobs(limit) =>
                 LET res == response'.result
                 IN  /\ Len(res) = IF limit < Len(queue) THEN limit ELSE Len(queue)
                     /\ Range(res) \subseteq Queued
                     /\ Cardinality(Range(res)) = Len(res)
                     /\ \A i, k \in 1 .. Len(res) :
                           i < k => jobs[res[i]].createdAt >= jobs[res[k]].createdAt
                     /\ \A j \in Queued \ Range(res) : \A k \in Range(res) :
                           jobs[j].createdAt <= jobs[k].createdAt
                     /\ queue' = queue
                     /\ jobs' = jobs
       /\ GetQueueStatus =>
             LET c == response'.result
             IN  /\ c.totalJobs = c.pendingJobs + c.processingJobs
                                    + c.completedJobs + c.failedJobs
                 /\ c.totalJobs = Len(queue)
                 /\ queue' = queue
                 /\ jobs' = jobs]_vars

\* getRecentJobs(1) has answered the later of two jobs, which is not the
\* first of the array.
C22_Witness ==
    /\ response.op = "getRecentJobs"
    /\ response.limit = 1
    /\ Len(queue) = 2
    /\ Len(response.result) = 1
    /\ response.result[1] = queue[2]
    /\ jobs[queue[2]].createdAt > jobs[queue[1]].createdAt

\* C23: the schedule of a JobInfo changes only in a successful
\* updateMainSchedule: start(), stop(), the callbacks of the tasks and
\* triggerMainJob leave it as it is, so a schedule installed by an update is
\* still there after stop() and start().
C23_ScheduleOnlyByUpdate ==
    [][\A n \in DOMAIN cron.jobs \cap DOMAIN cron'.jobs :
          cron'.jobs[n].schedule # cron.jobs[n].schedule =>
              \E e \in UpdateArgs :
                  /\ UpdateMainSchedule(e)
                  /\ response'.successful
                  /\ n = "main-posting"
                  /\ cron'.jobs[n].schedule = e]_vars

\* C24: in every reachable state the flag running that getStatus reports for
\* a schedule is true exactly when a task of that schedule is started, and
\* no task is started while isRunning is false.
C24_RunningMeansArmed ==
    /\ \A n \in DOMAIN cron.jobs : running(cron, n) <=> TimerCount(cron, n) > 0
    /\ ~cron.isRunning => ArmedTimers = {}

\* A completed job created more than the retention window before now.
OlderThanWindow(j) ==
    jobs[j].status = "completed" /\ jobs[j].createdAt < now - RetentionWindow

\* A completed job created the retention window before now, or earlier.
AtLeastWindowOld(j) ==
    jobs[j].status = "completed" /\ jobs[j].createdAt <= now - RetentionWindow

\* What a run of cleanupOldJobs computes, old being the jobs that are past
\* the retention window: nothing on a queue of at most maxJobs jobs; else the
\* jobs that are not old stay, in their order, unless they are more than
\* maxJobs, and then maxJobs of them stay and none that is dropped is later
\* than one that stays.
RetentionComputes(old) ==
    LET cand == Queued \ old
        kept == Range(queue')
    IN  IF Len(queue) <= maxJobs THEN queue' = queue
        ELSE IF Cardinality(cand) <= maxJobs
        THEN /\ kept = cand
             /\ Len(queue') = Cardinality(cand)
        ELSE /\ kept \subseteq cand
             /\ Len(queue') = maxJobs
             /\ Cardinality(kept) = maxJobs
             /\ \A d \in cand \ kept : \A k \in kept :
                   jobs[d].createdAt <= jobs[k].createdAt

C26_AtMostOneTimer ==
    /\ \A n \in Range(ScheduleNames) : TimerCount(cron, n) <= 1
    /\ Len(cron.orphans) = 0

\* C27: while the executor is not started addJob still succeeds and no job
\* goes from pending to processing, whatever callback runs; a handler that
\* answers after stop() still records its outcome on its job; and in every
\* state at most one interval timer exists, and one exists exactly when the
\* executor is started.
C27_StoppedExecutor ==
    /\ [](/\ intervals <= 1
          /\ (intervals = 1) <=> isProcessing
          /\ processingInterval <=> isProcessing)
    /\ [][/\ (~isProcessing /\ ~isProcessing') =>
                 \A j \in DOMAIN jobs : ~DispatchedInStep(j)
          /\ \A r \in Requests :
                 (AddJob(r[1], r[2], r[3]) /\ ~isProcessing) =>
                     /\ response'.successful
                     /\ nextId \in Range(queue')
                     /\ jobs'[nextId].status = "pending"
          /\ \A j \in inflight :
                 (~isProcessing /\ j \notin inflight') =>
                     /\ j \in DOMAIN jobs'
                     /\ jobs'[j].status \in {"completed", "pending", "failed"}
                     /\ jobs'[j].attempts = jobs[j].attempts]_vars

\* stop() was called while a handler was in flight and a call of
\* processQueue was waiting, with a job in the queue that a dequeue would
\* select.
C27_Witness ==
    /\ response.op = "stop"
    /\ ~isProcessing
    /\ immediates > 0
    /\ inflight # {}
    /\ EligibleNow # {}

\* C28, in the form a finite run refutes: with the executor started and
\* never stopped and no job cancelled, a job that is pending or processing
\* that the step does not run stays in the queue, so that it can reach
\* completed or failed there.
C28_NoJobLost ==
    [][\A j \in Queued :
          (\/ jobs[j].status = "pending" /\ j # nextJob(queue, jobs, now)
           \/ jobs[j].status = "processing" /\ j \in inflight')
              => j \in Range(queue')]_vars

\* C29: every job the scheduler enqueues, from a task's callback or from
\* triggerMainJob, has a type that is a case of the switch in executeJob.
C29_SchedulerTypesRegistered ==
    \A j \in DOMAIN jobs : jobs[j].type \in RegisteredTypes

\* C30, in the form a finite run refutes: when Application.initialize answers
\* successful, the executor is started and its interval exists, so that the
\* jobs the schedules enqueue are dispatched.
C30_InitializeStartsExecutor ==
    [][\A envValid, configValid \in BOOLEAN :
          (AppInitialize(envValid, configValid) /\ response'.successful) =>
              /\ cron'.isRunning
              /\ isProcessing'
              /\ intervals' = 1]_vars

====
